---- MODULE Spec2Model ----
(***************************************************************************)
(* Master Contact CRM API (src/main.py): the contact collection and the    *)
(* request handlers that read and write it.                                *)
(*                                                                         *)
(* A Python str is a sequence of one-character strings.  A stored or       *)
(* transmitted value is tagged with its type, as BSON and JSON values are: *)
(* Str(s), Null, Date(d), Oid(n).  A datetime is the tuple                 *)
(* <<year, month, day, hour, minute, second, microsecond>>.                *)
(***************************************************************************)
EXTENDS Integers, Sequences, FiniteSets, TLC

VARIABLES
    contacts,   \* contacts_collection: _id -> document (field name -> value)
    nextId,     \* the next ObjectId the store hands out
    now,        \* the reading datetime.utcnow() last gave
    resp,       \* the response last sent; none while an export or a listing,
                \* which read the collection twice, is being served
    exp,        \* the export_excel request in flight: position and its data list
    hist,       \* the get_history request in flight: position, parameters, page
    ledger      \* for each stored contact: the form it was submitted with, the
                \* created_at stamped at insertion, whether it was updated since

vars == <<contacts, nextId, now, resp, exp, hist, ledger>>

----------------------------------------------------------------------------
(* Bounds of the model *)

\* contacts ever submitted, in the request specification
MaxContacts == 2
\* contacts ever submitted, in the export specification
MaxExported == 2
\* contacts ever submitted, in the listing specification
MaxListed == 2
\* largest page number and largest limit requested of the listing
MaxPage == 2
MaxLimit == 2
\* largest total the pagination arithmetic is applied to
MaxTotal == 205

----------------------------------------------------------------------------
(* Values *)

Str(s) == [t |-> "str", v |-> s]
Null == [t |-> "null", v |-> <<>>]
Date(d) == [t |-> "date", v |-> d]
Oid(n) == [t |-> "oid", v |-> <<n>>]

IsStr(x) == x.t = "str"
IsDate(x) == x.t = "date"

\* Python truthiness of an Optional[str]: None and "" are falsy
Truthy(x) == IsStr(x) /\ x.v # <<>>

Range(f) == {f[i] : i \in DOMAIN f}

----------------------------------------------------------------------------
(* str.strip() and str.lower() *)

IsSpace(c) == c = " "

RECURSIVE LStrip(_)
LStrip(s) == IF s # <<>> /\ IsSpace(Head(s)) THEN LStrip(Tail(s)) ELSE s

RECURSIVE RStrip(_)
RStrip(s) ==
    IF s # <<>> /\ IsSpace(s[Len(s)]) THEN RStrip(SubSeq(s, 1, Len(s) - 1)) ELSE s

StripIdentity(s) == s

Strip(s) == RStrip(LStrip(s))

LowerChar(c) ==
    CASE c = "A" -> "a"
      [] c = "B" -> "b"
      [] c = "H" -> "h"
      [] c = "T" -> "t"
      [] OTHER -> c

Lower(s) == [i \in DOMAIN s |-> LowerChar(s[i])]

----------------------------------------------------------------------------
(* datetime.fromisoformat, datetime.isoformat, strftime *)

DigitChars == <<"0", "1", "2", "3", "4", "5", "6", "7", "8", "9">>

IsDigit(c) == c \in Range(DigitChars)

DigitVal(c) == (CHOOSE i \in 1..10 : DigitChars[i] = c) - 1

RECURSIVE Num(_)
Num(s) == IF s = <<>> THEN 0 ELSE 10 * Num(SubSeq(s, 1, Len(s) - 1)) + DigitVal(s[Len(s)])

AllDigits(s) == \A i \in DOMAIN s : IsDigit(s[i])

IsLeap(y) == (y % 4 = 0 /\ y % 100 # 0) \/ y % 400 = 0

DaysIn(y, m) ==
    IF m = 2 THEN (IF IsLeap(y) THEN 29 ELSE 28)
    ELSE IF m \in {4, 6, 9, 11} THEN 30 ELSE 31

\* "YYYY-MM-DD" well formed, with a month and a day that exist
DatePartOk(s) ==
    /\ Len(s) >= 10
    /\ s[5] = "-" /\ s[8] = "-"
    /\ AllDigits(SubSeq(s, 1, 4)) /\ AllDigits(SubSeq(s, 6, 7)) /\ AllDigits(SubSeq(s, 9, 10))
    /\ Num(SubSeq(s, 1, 4)) >= 1
    /\ Num(SubSeq(s, 6, 7)) \in 1..12
    /\ Num(SubSeq(s, 9, 10)) \in 1..DaysIn(Num(SubSeq(s, 1, 4)), Num(SubSeq(s, 6, 7)))

\* "HH:MM:SS" after the separator
TimePartOk(s) ==
    /\ Len(s) = 19
    /\ s[11] \in {"T", " "}
    /\ s[14] = ":" /\ s[17] = ":"
    /\ AllDigits(SubSeq(s, 12, 13)) /\ AllDigits(SubSeq(s, 15, 16)) /\ AllDigits(SubSeq(s, 18, 19))
    /\ Num(SubSeq(s, 12, 13)) \in 0..23
    /\ Num(SubSeq(s, 15, 16)) \in 0..59
    /\ Num(SubSeq(s, 18, 19)) \in 0..59

\* datetime.fromisoformat raises ValueError exactly when this is FALSE
IsoOk(s) == DatePartOk(s) /\ (Len(s) = 10 \/ TimePartOk(s))

FromIsoFormat(s) ==
    <<Num(SubSeq(s, 1, 4)), Num(SubSeq(s, 6, 7)), Num(SubSeq(s, 9, 10)),
      IF Len(s) = 19 THEN Num(SubSeq(s, 12, 13)) ELSE 0,
      IF Len(s) = 19 THEN Num(SubSeq(s, 15, 16)) ELSE 0,
      IF Len(s) = 19 THEN Num(SubSeq(s, 18, 19)) ELSE 0,
      0>>

Pad2(n) == <<DigitChars[(n \div 10) + 1], DigitChars[(n % 10) + 1]>>

Pad4(n) == Pad2(n \div 100) \o Pad2(n % 100)

Pad6(n) == Pad2(n \div 10000) \o Pad4(n % 10000)

\* "%Y-%m-%d<sep>%H:%M:%S"
FormatDate(d, sep) ==
    Pad4(d[1]) \o <<"-">> \o Pad2(d[2]) \o <<"-">> \o Pad2(d[3]) \o <<sep>>
        \o Pad2(d[4]) \o <<":">> \o Pad2(d[5]) \o <<":">> \o Pad2(d[6])

\* datetime.isoformat(), the form FastAPI's JSON encoder gives a datetime
IsoFormat(d) ==
    FormatDate(d, "T") \o (IF d[7] = 0 THEN <<>> ELSE <<".">> \o Pad6(d[7]))

\* lexicographic order of datetimes
RECURSIVE TupleLE(_, _)
TupleLE(a, b) ==
    IF a = <<>> THEN TRUE
    ELSE IF Head(a) # Head(b) THEN Head(a) < Head(b)
    ELSE TupleLE(Tail(a), Tail(b))

\* datetime.combine(d, datetime.max.time())
EndOfDay(d) == <<d[1], d[2], d[3], 23, 59, 59, 999999>>

\* datetime.utcnow() at clock reading n
UtcNow(n) == <<2025, 3, 1 + n, 9, 30, 0, 0>>

----------------------------------------------------------------------------
(* Identifiers: bson.ObjectId and its text form *)

IdText(n) == <<"o">> \o Pad2(n)

\* ObjectId.is_valid(id)
IsValidOid(s) == Len(s) = 3 /\ s[1] = "o" /\ AllDigits(SubSeq(s, 2, 3))

\* ObjectId(id), for a valid id
ParseOid(s) == Num(SubSeq(s, 2, 3))

----------------------------------------------------------------------------
(* Documents *)

RequiredText == {"company_name", "name", "designation", "mobile", "address"}
OptionalText == {"mobile2", "landline", "linkedin", "partner_name", "comments"}
Verbatim == {"existing_client", "disposition"}
DateFields == {"call_date", "lead_entry_date"}
FormFields ==
    RequiredText \cup OptionalText \cup Verbatim \cup DateFields \cup {"email", "email2"}

\* x.strip() if x else None
OptStrip(x) == IF Truthy(x) THEN Str(Strip(x.v)) ELSE Null

\* x.strip().lower() if x else None
OptStripLower(x) == IF Truthy(x) THEN Str(Lower(Strip(x.v))) ELSE Null

\* the dict built by submit_contact, _id included as insert_one adds it
NewContact(form, id, clock) ==
    [k \in FormFields \cup {"_id", "created_at"} |->
        CASE k = "_id" -> Oid(id)
          [] k = "created_at" -> Date(UtcNow(clock))
          [] k \in RequiredText -> Str(Strip(form[k].v))
          [] k \in OptionalText -> OptStrip(form[k])
          [] k = "email" -> Str(Lower(Strip(form[k].v)))
          [] k = "email2" -> OptStripLower(form[k])
          [] k \in DateFields -> Date(FromIsoFormat(form[k].v))
          [] OTHER -> form[k]]

\* jsonable_encoder on a returned document: datetimes become ISO strings
JsonEncode(x) == IF IsDate(x) THEN Str(IsoFormat(x.v)) ELSE x

\* doc["_id"] = str(doc["_id"]), then the JSON encoding of the response
Serialize(doc) ==
    [k \in DOMAIN doc |->
        IF k = "_id" THEN Str(IdText(doc[k].v[1])) ELSE JsonEncode(doc[k])]

Response(op, status, id, hit, detail, body) ==
    [op |-> op, status |-> status, id |-> id, hit |-> hit, detail |-> detail, body |-> body]

NoBody == <<>>

\* nothing sent yet, or a request with several reads is being served
NoResponse == [op |-> "none", status |-> 0]

----------------------------------------------------------------------------
(* POST /submit *)

\* dt: the time elapsed since the clock was last read
Submit(form, dt) ==
    /\ IF IsoOk(form["call_date"].v) /\ IsoOk(form["lead_entry_date"].v)
       THEN /\ contacts' = [i \in DOMAIN contacts \cup {nextId} |->
                               IF i = nextId THEN NewContact(form, nextId, now + dt)
                               ELSE contacts[i]]
            /\ nextId' = nextId + 1
            /\ now' = now + dt
            /\ ledger' = [i \in DOMAIN ledger \cup {nextId} |->
                             IF i = nextId
                             THEN [form |-> form, created |-> UtcNow(now + dt),
                                   pristine |-> TRUE]
                             ELSE ledger[i]]
            /\ resp' = Response("submit", 200, <<>>, FALSE,
                                "Contact saved successfully", NoBody)
       ELSE \* ValueError from fromisoformat, caught by except Exception
            /\ resp' = Response("submit", 500, <<>>, FALSE,
                                "Server error while saving contact", NoBody)
            /\ UNCHANGED <<contacts, nextId, now, ledger>>
    /\ UNCHANGED <<exp, hist>>

----------------------------------------------------------------------------
(* PATCH /update/{id} *)

\* the loop over call_date, lead_entry_date: a str there is parsed
NeedsParse(data, k) == k \in DateFields /\ k \in DOMAIN data /\ IsStr(data[k])

DatesParse(data) == \A k \in DateFields : NeedsParse(data, k) => IsoOk(data[k].v)

ParsedData(data) ==
    [k \in DOMAIN data |->
        IF NeedsParse(data, k) THEN Date(FromIsoFormat(data[k].v)) ELSE data[k]]

\* {"$set": data} applied to one document
ApplySet(doc, data) ==
    [k \in DOMAIN doc \cup DOMAIN data |-> IF k \in DOMAIN data THEN data[k] ELSE doc[k]]

ModifiedCountMatched(doc, data) == 1

\* result.modified_count of update_one on the matched document
ModifiedCount(doc, data) == IF ApplySet(doc, data) = doc THEN 0 ELSE 1

Update(id, data) ==
    /\ IF ~IsValidOid(id)
       THEN /\ resp' = Response("update", 400, id, FALSE, "Invalid ID", NoBody)
            /\ UNCHANGED <<contacts, ledger>>
       ELSE IF ~DatesParse(data)
       THEN \* ValueError from fromisoformat, not caught by the handler
            /\ resp' = Response("update", 500, id, ParseOid(id) \in DOMAIN contacts,
                                "Internal Server Error", NoBody)
            /\ UNCHANGED <<contacts, ledger>>
       ELSE IF ParseOid(id) \notin DOMAIN contacts
       THEN /\ resp' = Response("update", 404, id, FALSE,
                                "Contact not found or no changes made", NoBody)
            /\ UNCHANGED <<contacts, ledger>>
       ELSE LET n == ParseOid(id)
                set == ParsedData(data)
            IN  /\ contacts' = [contacts EXCEPT ![n] = ApplySet(@, set)]
                /\ IF ModifiedCount(contacts[n], set) = 0
                   THEN /\ resp' = Response("update", 404, id, TRUE,
                                            "Contact not found or no changes made", NoBody)
                        /\ UNCHANGED ledger
                   ELSE /\ resp' = Response("update", 200, id, TRUE,
                                            "Contact updated", NoBody)
                        /\ ledger' = [ledger EXCEPT ![n].pristine = FALSE]
    /\ UNCHANGED <<nextId, now, exp, hist>>

----------------------------------------------------------------------------
(* GET /get_contact/{contact_id} *)

GetContact(id) ==
    /\ IF ~IsValidOid(id)
       THEN resp' = Response("get", 400, id, FALSE, "Invalid ID", NoBody)
       ELSE IF ParseOid(id) \notin DOMAIN contacts
       THEN resp' = Response("get", 404, id, FALSE, "Contact not found", NoBody)
       ELSE resp' = Response("get", 200, id, TRUE, "", Serialize(contacts[ParseOid(id)]))
    /\ UNCHANGED <<contacts, nextId, now, exp, hist, ledger>>

----------------------------------------------------------------------------
(* DELETE /delete/{contact_id} *)

\* The HTTPException(404) raised in the try block is an Exception: the
\* handler's own except clause catches it and raises HTTPException(500).
DeleteStatusNoMatch == 500

Delete(id) ==
    /\ IF ~IsValidOid(id)
       THEN \* bson.errors.InvalidId from ObjectId(contact_id), caught
            /\ resp' = Response("delete", 500, id, FALSE,
                                "Error deleting contact: not a valid ObjectId", NoBody)
            /\ UNCHANGED <<contacts, ledger>>
       ELSE IF ParseOid(id) \in DOMAIN contacts
       THEN /\ contacts' = [i \in DOMAIN contacts \ {ParseOid(id)} |-> contacts[i]]
            /\ ledger' = [i \in DOMAIN ledger \ {ParseOid(id)} |-> ledger[i]]
            /\ resp' = Response("delete", 200, id, TRUE,
                                "Contact deleted successfully", NoBody)
       ELSE /\ resp' = Response("delete", DeleteStatusNoMatch, id, FALSE,
                                "Error deleting contact: 404: Contact not found", NoBody)
            /\ UNCHANGED <<contacts, ledger>>
    /\ UNCHANGED <<nextId, now, exp, hist>>

----------------------------------------------------------------------------
(* Orderings the store can return *)

\* every enumeration of the set S, as a sequence without repetition
Orders(S) ==
    {f \in [1..Cardinality(S) -> S] : \A i, j \in DOMAIN f : f[i] = f[j] => i = j}

\* BSON comparison order of the types a created_at can hold
TypeRank(x) ==
    CASE x.t = "null" -> 1
      [] x.t = "str" -> 2
      [] x.t = "oid" -> 3
      [] x.t = "date" -> 4

Alphabet == <<" ", ".", "0", "1", "2", "3", "4", "5", "6", "7", "8", "9", ":",
              "A", "B", "H", "T", "a", "b", "h", "n", "o", "t", "x">>

CharCode(c) == CHOOSE i \in DOMAIN Alphabet : Alphabet[i] = c

RECURSIVE TextLE(_, _)
TextLE(a, b) ==
    IF a = <<>> THEN TRUE
    ELSE IF b = <<>> THEN FALSE
    ELSE IF Head(a) # Head(b) THEN CharCode(Head(a)) < CharCode(Head(b))
    ELSE TextLE(Tail(a), Tail(b))

\* x sorts at or before y in ascending BSON order
ValueLE(x, y) ==
    IF TypeRank(x) # TypeRank(y) THEN TypeRank(x) < TypeRank(y)
    ELSE IF IsDate(x) THEN TupleLE(x.v, y.v)
    ELSE IF IsStr(x) THEN TextLE(x.v, y.v)
    ELSE TRUE

\* a missing field sorts as null
CreatedAt(doc) == IF "created_at" \in DOMAIN doc THEN doc["created_at"] ELSE Null

SortedAscending(coll, f) ==
    \A i, j \in DOMAIN f : i < j => ValueLE(CreatedAt(coll[f[i]]), CreatedAt(coll[f[j]]))

\* .sort("created_at", -1): ties in whatever order the store yields
SortedDescending(coll, f) ==
    \A i, j \in DOMAIN f : i < j => ValueLE(CreatedAt(coll[f[j]]), CreatedAt(coll[f[i]]))

----------------------------------------------------------------------------
(* GET /export_excel *)

\* {"created_at": {"$type": "date"}}
HasDateCreated(doc) == "created_at" \in DOMAIN doc /\ IsDate(doc["created_at"])

\* one cell of the sanitized row
SanitizeValue(x) ==
    CASE x.t = "oid" -> Str(IdText(x.v[1]))
      [] x.t = "date" -> Str(FormatDate(x.v, " "))
      [] x.t = "null" -> Str(<<>>)
      [] OTHER -> x

\* the sanitized row, after df.drop(columns=["created_at"])
ExportRow(doc) == [k \in DOMAIN doc \ {"created_at"} |-> SanitizeValue(doc[k])]

Idle == [pc |-> "idle", data |-> <<>>, present |-> {}]

\* first query: rows with a date created_at, newest first
ExportReadGood ==
    /\ exp.pc = "idle"
    /\ LET good == {i \in DOMAIN contacts : HasDateCreated(contacts[i])}
       IN  \E f \in Orders(good) :
              /\ SortedDescending(contacts, f)
              /\ exp' = [pc |-> "bad",
                         data |-> [i \in DOMAIN f |-> contacts[f[i]]],
                         present |-> DOMAIN contacts]
    /\ resp' = NoResponse
    /\ UNCHANGED <<contacts, nextId, now, hist, ledger>>

\* second query: every other row, unsorted; then the table is built and sent
ExportReadBad ==
    /\ exp.pc = "bad"
    /\ LET bad == {i \in DOMAIN contacts : ~HasDateCreated(contacts[i])}
       IN  \E f \in Orders(bad) :
              LET data == exp.data \o [i \in DOMAIN f |-> contacts[f[i]]]
              IN  resp' = [op |-> "export", status |-> 200,
                           body |-> [i \in DOMAIN data |-> ExportRow(data[i])],
                           data |-> data,
                           present |-> exp.present \cap DOMAIN contacts]
    /\ exp' = Idle
    /\ UNCHANGED <<contacts, nextId, now, hist, ledger>>

----------------------------------------------------------------------------
(* GET /get_history: the query *)

LimitMax == 200

\* one character of a pattern against one character of the text
CharMatches(pc, c, icase) ==
    \/ pc = "."
    \/ pc = c
    \/ icase /\ LowerChar(pc) = LowerChar(c)

\* {"$regex": pat} with or without {"$options": "i"}: an unanchored search
RegexSearch(pat, s, icase) ==
    \E off \in 0..(Len(s) - Len(pat)) :
        \A i \in 1..Len(pat) : CharMatches(pat[i], s[off + i], icase)

RegexCond(pat, icase) == [op |-> "regex", pat |-> pat, icase |-> icase]
EqCond(val) == [op |-> "eq", val |-> val]
RangeCond(lo, hi) == [op |-> "range", gte |-> lo, lte |-> hi]
Clause(field, cond) == [field |-> field, cond |-> cond]

\* query[k] = v
Put(q, k, v) == [x \in DOMAIN q \cup {k} |-> IF x = k THEN v ELSE q[x]]

\* query.get(k, default)
Get(q, k, default) == IF k \in DOMAIN q THEN q[k] ELSE default

Supplied(s) == Strip(s) # <<>>

\* the date strings the builder hands to fromisoformat
ParsedParams(p) ==
    (IF p.call_start # <<>> /\ p.call_end # <<>> THEN {p.call_start, p.call_end} ELSE {})
    \cup (IF p.lead_start # <<>> /\ p.lead_end # <<>> THEN {p.lead_start, p.lead_end} ELSE {})
    \cup (IF p.start # <<>> /\ p.end # <<>> THEN {p.start, p.end} ELSE {})

QueryBuilds(p) == \A s \in ParsedParams(p) : IsoOk(s)

PhoneClauses(p) ==
    <<Clause("mobile", RegexCond(p.phone, FALSE)),
      Clause("mobile2", RegexCond(p.phone, FALSE))>>

PhoneOverwrites(q, p) == Put(q, "$or", PhoneClauses(p))

\* query["$or"] = query.get("$or", []) + [...]
PhoneAppends(q, p) == Put(q, "$or", Get(q, "$or", <<>>) \o PhoneClauses(p))

BuildQuery(p) ==
    LET q0 == <<>>
        q1 == IF Supplied(p.search)
              THEN Put(q0, "$or",
                       <<Clause("name", RegexCond(p.search, TRUE)),
                         Clause("company_name", RegexCond(p.search, TRUE)),
                         Clause("mobile", RegexCond(p.search, FALSE)),
                         Clause("email", RegexCond(p.search, TRUE))>>)
              ELSE q0
        q2 == IF Supplied(p.company)
              THEN Put(q1, "company_name", RegexCond(p.company, TRUE))
              ELSE q1
        q3 == IF Supplied(p.phone) THEN PhoneAppends(q2, p) ELSE q2
        q4 == IF Supplied(p.disposition)
              THEN Put(q3, "disposition", EqCond(Str(p.disposition)))
              ELSE q3
        q5 == IF p.call_start # <<>> /\ p.call_end # <<>>
              THEN Put(q4, "call_date",
                       RangeCond(FromIsoFormat(p.call_start), FromIsoFormat(p.call_end)))
              ELSE q4
        q6 == IF p.lead_start # <<>> /\ p.lead_end # <<>>
              THEN Put(q5, "lead_entry_date",
                       RangeCond(FromIsoFormat(p.lead_start), FromIsoFormat(p.lead_end)))
              ELSE q5
        q7 == IF p.start # <<>> /\ p.end # <<>>
              THEN Put(q6, "created_at",
                       RangeCond(FromIsoFormat(p.start), EndOfDay(FromIsoFormat(p.end))))
              ELSE q6
    IN  q7

\* one {field: condition} against a document, as the store evaluates it
MatchCond(doc, field, cond) ==
    /\ field \in DOMAIN doc
    /\ CASE cond.op = "regex" ->
                IsStr(doc[field]) /\ RegexSearch(cond.pat, doc[field].v, cond.icase)
         [] cond.op = "eq" -> doc[field] = cond.val
         [] cond.op = "range" ->
                /\ IsDate(doc[field])
                /\ TupleLE(cond.gte, doc[field].v)
                /\ TupleLE(doc[field].v, cond.lte)

\* the top-level keys of a query are ANDed; "$or" holds alternatives
Matches(doc, q) ==
    \A k \in DOMAIN q :
        IF k = "$or"
        THEN \E i \in DOMAIN q[k] : MatchCond(doc, q[k][i].field, q[k][i].cond)
        ELSE MatchCond(doc, k, q[k])

----------------------------------------------------------------------------
(* GET /get_history: pagination and the two reads *)

Skip(page, limit) == (page - 1) * limit

PagesFloor(total, limit) == total \div limit

Pages(total, limit) == (total + limit - 1) \div limit

Min(a, b) == IF a < b THEN a ELSE b

\* find(query).sort("created_at", -1).skip(skip).limit(limit), read to the end
HistoryFind(p) ==
    /\ hist.pc = "idle"
    /\ IF ~QueryBuilds(p)
       THEN \* ValueError from fromisoformat, not caught by the handler
            /\ resp' = [op |-> "history", status |-> 500, params |-> p]
            /\ hist' = [pc |-> "idle", params |-> p, history |-> <<>>]
       ELSE LET q == BuildQuery(p)
                hit == {i \in DOMAIN contacts : Matches(contacts[i], q)}
            IN  \E f \in Orders(hit) :
                   /\ SortedDescending(contacts, f)
                   /\ LET first == Skip(p.page, p.limit) + 1
                          last == Min(Skip(p.page, p.limit) + p.limit, Len(f))
                      IN  hist' = [pc |-> "count", params |-> p,
                                   history |-> [i \in 1..(last - first + 1) |->
                                                   Serialize(contacts[f[first + i - 1]])]]
                   /\ resp' = NoResponse
    /\ UNCHANGED <<contacts, nextId, now, exp, ledger>>

\* count_documents(query), then the response
HistoryCount ==
    /\ hist.pc = "count"
    /\ LET q == BuildQuery(hist.params)
           total == Cardinality({i \in DOMAIN contacts : Matches(contacts[i], q)})
       IN  resp' = [op |-> "history", status |-> 200, params |-> hist.params,
                    history |-> hist.history,
                    page |-> hist.params.page,
                    pages |-> Pages(total, hist.params.limit),
                    total |-> total]
    /\ hist' = [hist EXCEPT !.pc = "idle", !.history = <<>>]
    /\ UNCHANGED <<contacts, nextId, now, exp, ledger>>

\* skip and pages as get_history computes them, for one page, limit and total
Paginate ==
    /\ hist.pc = "input"
    /\ resp' = [op |-> "paginate", status |-> 200,
                page |-> hist.page, limit |-> hist.limit, total |-> hist.total,
                skip |-> Skip(hist.page, hist.limit),
                pages |-> Pages(hist.total, hist.limit)]
    /\ hist' = [hist EXCEPT !.pc = "output"]
    /\ UNCHANGED <<contacts, nextId, now, exp, ledger>>

----------------------------------------------------------------------------
(* Request inputs *)

D10 == <<"2", "0", "2", "4", "-", "0", "1", "-", "1", "0">>
D15 == <<"2", "0", "2", "4", "-", "0", "1", "-", "1", "5">>
D15T == D15 \o <<"T", "1", "0", ":", "3", "0", ":", "0", "0">>
D31 == <<"2", "0", "2", "5", "-", "0", "3", "-", "0", "1">>
NotADate == <<"n", "o">>

\* already normalised: nothing to trim, lower-case, no optional field given
FormA ==
    [k \in FormFields |->
        CASE k = "company_name" -> Str(<<"a", "b">>)
          [] k = "name" -> Str(<<"a">>)
          [] k = "designation" -> Str(<<"b">>)
          [] k = "mobile" -> Str(<<"9", "0">>)
          [] k = "email" -> Str(<<"a">>)
          [] k = "address" -> Str(<<"a">>)
          [] k = "existing_client" -> Str(<<"n">>)
          [] k = "disposition" -> Str(<<"H">>)
          [] k \in DateFields -> Str(D10)
          [] OTHER -> Null]

\* padded, upper-case and blank inputs
FormB ==
    [k \in FormFields |->
        CASE k = "company_name" -> Str(<<" ", "A", "b", " ">>)
          [] k = "name" -> Str(<<" ", "B">>)
          [] k = "designation" -> Str(<<"b", " ">>)
          [] k = "mobile" -> Str(<<" ", "9", "1", " ">>)
          [] k = "mobile2" -> Str(<<" ">>)
          [] k = "landline" -> Str(<<>>)
          [] k = "email" -> Str(<<" ", "B", " ">>)
          [] k = "email2" -> Str(<<" ", "A">>)
          [] k = "linkedin" -> Null
          [] k = "address" -> Str(<<" ", "a", " ">>)
          [] k = "existing_client" -> Str(<<" ", "n">>)
          [] k = "partner_name" -> Str(<<"b", " ">>)
          [] k = "comments" -> Str(<<" ", "b">>)
          [] k = "disposition" -> Str(<<"H">>)
          [] k = "call_date" -> Str(D15T)
          [] k = "lead_entry_date" -> Str(D10)]

\* a second phone, another disposition
FormC ==
    [FormA EXCEPT !["company_name"] = Str(<<"b">>),
                  !["name"] = Str(<<"H">>),
                  !["mobile"] = Str(<<"9", "1">>),
                  !["mobile2"] = Str(<<"9", "0">>),
                  !["email"] = Str(<<"x">>),
                  !["disposition"] = Str(<<"T">>),
                  !["call_date"] = Str(D15),
                  !["lead_entry_date"] = Str(D15)]

FormBadDate == [FormA EXCEPT !["call_date"] = Str(NotADate)]

Forms == {FormA, FormB, FormBadDate}

Body(k, v) == [x \in {k} |-> v]

EmptyBody == <<>>

UpdateBodies ==
    { EmptyBody,
      Body("disposition", Str(<<"H">>)),
      Body("call_date", Str(D10)),
      Body("call_date", Str(NotADate)),
      Body("created_at", Str(<<"x">>)) }

IdTexts(n) == {IdText(i) : i \in 1..n} \cup {<<"x">>}

NoFilter ==
    [page |-> 1, limit |-> 1, search |-> <<>>, company |-> <<>>, phone |-> <<>>,
     disposition |-> <<>>, call_start |-> <<>>, call_end |-> <<>>,
     lead_start |-> <<>>, lead_end |-> <<>>, start |-> <<>>, end |-> <<>>]

HistIdle == [pc |-> "idle", params |-> NoFilter, history |-> <<>>]

----------------------------------------------------------------------------
(* The requests on single contacts *)

Init ==
    /\ contacts = <<>>
    /\ nextId = 1
    /\ now = 0
    /\ resp = NoResponse
    /\ exp = Idle
    /\ hist = HistIdle
    /\ ledger = <<>>

Next ==
    \/ \E form \in Forms : nextId <= MaxContacts /\ Submit(form, 1)
    \/ \E id \in IdTexts(MaxContacts), data \in UpdateBodies : Update(id, data)
    \/ \E id \in IdTexts(MaxContacts) : GetContact(id)
    \/ \E id \in IdTexts(MaxContacts) : Delete(id)

Spec == Init /\ [][Next]_vars

----------------------------------------------------------------------------
(* Claims about the requests on single contacts *)

Stored(id) == IsValidOid(id) /\ ParseOid(id) \in DOMAIN contacts

\* C1: delete(id) for a well-formed identifier that matches no stored contact
\* responds 404, not 500, and leaves the collection unchanged.
C1_DeleteMissingIs404 ==
    [][\A id \in IdTexts(MaxContacts) :
          (resp'.op = "delete" /\ resp'.id = id /\ ~Stored(id) /\ IsValidOid(id) /\ Delete(id))
              => (resp'.status = 404 /\ contacts' = contacts)]_vars

\* C2: after any sequence of create, update and delete requests, every stored
\* contact's created_at equals the server timestamp stamped at its insertion.
C2_CreatedAtSetOnce ==
    \A i \in DOMAIN contacts :
        /\ "created_at" \in DOMAIN contacts[i]
        /\ contacts[i]["created_at"] = Date(ledger[i].created)

OptionalStrings == {"mobile2", "landline", "email2", "linkedin", "partner_name", "comments"}

\* C3: every optional string field of every stored contact is null or a
\* non-empty string; a blank input is stored as null, never as "".
C3_BlankStoredAsNull ==
    \A i \in DOMAIN contacts : \A k \in OptionalStrings :
        \/ contacts[i][k] = Null
        \/ IsStr(contacts[i][k]) /\ contacts[i][k].v # <<>>

\* the field map is empty, or every value it supplies is the value stored
SuppliesNothingNew(doc, data) ==
    \A k \in DOMAIN data : k \in DOMAIN doc /\ data[k] = doc[k]

\* C5: an update of an existing contact whose field map is empty or supplies
\* only values already stored is answered 404 with the detail an unmatched id
\* gets, and leaves the stored contact unchanged.
C5_NoOpUpdateIsNotFound ==
    [][\A id \in IdTexts(MaxContacts) : \A data \in UpdateBodies :
          (/\ resp'.op = "update" /\ resp'.id = id
           /\ Stored(id)
           /\ SuppliesNothingNew(contacts[ParseOid(id)], data)
           /\ Update(id, data))
              => /\ resp'.status = 404
                 /\ resp'.detail = "Contact not found or no changes made"
                 /\ contacts' = contacts]_vars

\* C5 witness: an update that matched a stored contact was answered 404
C5_Witness ==
    /\ resp.op = "update" /\ resp.status = 404 /\ resp.hit
    /\ Stored(resp.id)

\* the last request was a successful get of a contact not updated since its creation
FreshGet ==
    /\ resp.op = "get" /\ resp.status = 200
    /\ ledger[ParseOid(resp.id)].pristine

SubmittedForm == ledger[ParseOid(resp.id)].form

Spaces(n) == [i \in 1..n |-> " "]

\* t is s without its leading and trailing spaces
TrimOf(s, t) ==
    /\ t = <<>> \/ (t[1] # " " /\ t[Len(t)] # " ")
    /\ \E i, j \in 0..Len(s) : s = Spaces(i) \o t \o Spaces(j)

LowerOf(s, t) == Len(s) = Len(t) /\ \A i \in DOMAIN s : t[i] = LowerChar(s[i])

Blank(x) == x = Null \/ x.v = <<>>

\* what get returns for field k of a fresh contact submitted with value x
ReturnedFor(k, x, y) ==
    CASE k \in Verbatim -> y = x
      [] k \in RequiredText -> IsStr(y) /\ TrimOf(x.v, y.v)
      [] k \in OptionalText ->
            IF Blank(x) THEN y = Null ELSE IsStr(y) /\ TrimOf(x.v, y.v)
      [] k = "email" -> IsStr(y) /\ \E i, j \in 0..Len(x.v) :
                            /\ TrimOf(x.v, SubSeq(x.v, i + 1, j))
                            /\ LowerOf(SubSeq(x.v, i + 1, j), y.v)
      [] k = "email2" ->
            IF Blank(x) THEN y = Null
            ELSE IsStr(y) /\ \E i, j \in 0..Len(x.v) :
                     /\ TrimOf(x.v, SubSeq(x.v, i + 1, j))
                     /\ LowerOf(SubSeq(x.v, i + 1, j), y.v)
      [] k \in DateFields ->
            /\ IsStr(y) /\ Len(y.v) = 19 /\ y.v[11] = "T" /\ IsoOk(y.v)
            /\ FromIsoFormat(y.v) = FromIsoFormat(x.v)

----------------------------------------------------------------------------
(* Exports interleaved with the writes *)

ExportBodies == {Body("created_at", Str(<<"x">>))}

NextExport ==
    \/ \E dt \in {0, 1} : nextId <= MaxExported /\ Submit(FormA, dt)
    \/ \E id \in IdTexts(MaxExported), data \in ExportBodies : Update(id, data)
    \/ \E id \in IdTexts(MaxExported) : Delete(id)
    \/ ExportReadGood
    \/ ExportReadBad

SpecExport == Init /\ [][NextExport]_vars

\* C7: in the export's row sequence every contact with a date created_at
\* precedes every contact without one, and those with a date created_at are in
\* non-increasing created_at order.
C7_ExportOrder ==
    resp.op = "export" =>
        \A i, j \in DOMAIN resp.data :
            (i < j /\ HasDateCreated(resp.data[j]))
                => /\ HasDateCreated(resp.data[i])
                   /\ TupleLE(resp.data[j]["created_at"].v, resp.data[i]["created_at"].v)

\* C7 witness: an export with two rows of different date created_at and a
\* row whose created_at is not a date
C7_Witness ==
    /\ resp.op = "export"
    /\ \E i, j, k \in DOMAIN resp.data :
          /\ i < j /\ j < k
          /\ HasDateCreated(resp.data[i]) /\ HasDateCreated(resp.data[j])
          /\ resp.data[i]["created_at"] # resp.data[j]["created_at"]
          /\ ~HasDateCreated(resp.data[k])

RowsOf(n) == {i \in DOMAIN resp.body : resp.body[i]["_id"] = Str(IdText(n))}

\* C9: every contact in the collection for the whole of an export request
\* appears in that export exactly once, whatever updates interleave between
\* the export's two reads.
C9_ExportedExactlyOnce ==
    resp.op = "export" => \A n \in resp.present : Cardinality(RowsOf(n)) = 1

----------------------------------------------------------------------------
(* Listings interleaved with the writes *)

HistParams ==
    {[NoFilter EXCEPT !.page = pg, !.limit = lim, !.disposition = d] :
        pg \in 1..MaxPage, lim \in 1..MaxLimit, d \in {<<>>, <<"H">>}}

NextHistory ==
    \/ \E form \in {FormA, FormC}, dt \in {0, 1} : nextId <= MaxListed /\ Submit(form, dt)
    \/ \E id \in IdTexts(MaxListed) : Delete(id)
    \/ \E p \in HistParams : HistoryFind(p)
    \/ HistoryCount

SpecHistory == Init /\ [][NextHistory]_vars

Max(a, b) == IF a > b THEN a ELSE b

\* C10: the number of records in every get_history response equals
\* min(limit, max(0, total - (page-1)*limit)) for the total the same response
\* reports, whatever creates and deletes interleave with its two reads.
C10_HistoryConsistent ==
    (resp.op = "history" /\ resp.status = 200) =>
        Len(resp.history) =
            Min(resp.params.limit,
                Max(0, resp.total - (resp.params.page - 1) * resp.params.limit))

----------------------------------------------------------------------------
(* The query predicate, over a fixed collection *)

\* three contacts as submit stores them, the last with created_at overwritten
QueryCollection ==
    [i \in 1..3 |->
        CASE i = 1 -> NewContact(FormA, 1, 0)
          [] i = 2 -> NewContact(FormB, 2, 1)
          [] i = 3 -> ApplySet(NewContact(FormC, 3, 2), Body("created_at", Str(<<"x">>)))]

DateRanges ==
    { <<<<>>, <<>>>>, <<D10, <<>>>>, <<<<>>, D15>>, <<D10, D10>>, <<D10, D15>>,
      <<D15, D15>>, <<NotADate, <<>>>>, <<NotADate, D15>> }

LeadRanges == { <<<<>>, <<>>>>, <<D15, <<>>>>, <<D15, D15>> }

CreatedRanges == { <<<<>>, <<>>>>, <<<<>>, D31>>, <<D31, D31>> }

QueryParams ==
    {[page |-> 1, limit |-> LimitMax, search |-> s, company |-> c, phone |-> ph,
      disposition |-> d, call_start |-> cr[1], call_end |-> cr[2],
      lead_start |-> lr[1], lead_end |-> lr[2], start |-> sr[1], end |-> sr[2]] :
        s \in {<<>>, <<" ">>, <<"a">>, <<"h">>, <<"x">>, <<"9", ".">>},
        c \in {<<>>, <<"a">>},
        ph \in {<<>>, <<" ">>, <<"9", "0">>},
        d \in {<<>>, <<"H">>, <<"h">>},
        cr \in DateRanges, lr \in LeadRanges, sr \in CreatedRanges}

InitQuery ==
    /\ contacts = QueryCollection
    /\ nextId = 4
    /\ now = 2
    /\ resp = NoResponse
    /\ exp = Idle
    /\ hist \in {[pc |-> "idle", params |-> p, history |-> <<>>] : p \in QueryParams}
    /\ ledger = <<>>

NextQuery ==
    \/ HistoryFind(hist.params)
    \/ HistoryCount

SpecQuery == InitQuery /\ [][NextQuery]_vars

\* the text of field k of doc matches the pattern
FieldMatches(doc, k, pat, icase) ==
    k \in DOMAIN doc /\ IsStr(doc[k]) /\ RegexSearch(pat, doc[k].v, icase)

\* the date in field k of doc lies between lo and hi, ends included
DateWithin(doc, k, lo, hi) ==
    k \in DOMAIN doc /\ IsDate(doc[k]) /\ TupleLE(lo, doc[k].v) /\ TupleLE(doc[k].v, hi)

Both(a, b) == a # <<>> /\ b # <<>>

\* the contact satisfies every supplied filter, search and phone pooled in one
\* group of alternatives
Selected(doc, p) ==
    /\ (Supplied(p.search) \/ Supplied(p.phone)) =>
          \/ /\ Supplied(p.search)
             /\ \/ FieldMatches(doc, "name", p.search, TRUE)
                \/ FieldMatches(doc, "company_name", p.search, TRUE)
                \/ FieldMatches(doc, "mobile", p.search, FALSE)
                \/ FieldMatches(doc, "email", p.search, TRUE)
          \/ /\ Supplied(p.phone)
             /\ \/ FieldMatches(doc, "mobile", p.phone, FALSE)
                \/ FieldMatches(doc, "mobile2", p.phone, FALSE)
    /\ Supplied(p.company) => FieldMatches(doc, "company_name", p.company, TRUE)
    /\ Supplied(p.disposition) => doc["disposition"] = Str(p.disposition)
    /\ Both(p.call_start, p.call_end) =>
          DateWithin(doc, "call_date", FromIsoFormat(p.call_start), FromIsoFormat(p.call_end))
    /\ Both(p.lead_start, p.lead_end) =>
          DateWithin(doc, "lead_entry_date",
                     FromIsoFormat(p.lead_start), FromIsoFormat(p.lead_end))
    /\ Both(p.start, p.end) =>
          DateWithin(doc, "created_at",
                     FromIsoFormat(p.start), EndOfDay(FromIsoFormat(p.end)))

\* a range with both ends supplied has ends that parse
RangesParse(p) ==
    /\ Both(p.call_start, p.call_end) => IsoOk(p.call_start) /\ IsoOk(p.call_end)
    /\ Both(p.lead_start, p.lead_end) => IsoOk(p.lead_start) /\ IsoOk(p.lead_end)
    /\ Both(p.start, p.end) => IsoOk(p.start) /\ IsoOk(p.end)

Listed == {resp.history[i]["_id"] : i \in DOMAIN resp.history}

\* C4: get_history selects a stored contact exactly when it satisfies every
\* supplied filter (company, disposition, each date range with both ends
\* supplied), where search and phone form one group of alternatives of which
\* one must match; a range with one end supplied constrains nothing and is no
\* error.
C4_QueryPredicate ==
    (resp.op = "history" /\ RangesParse(resp.params)) =>
        /\ resp.status = 200
        /\ Listed = {Str(IdText(i)) : i \in {n \in DOMAIN contacts :
                                                Selected(contacts[n], resp.params)}}
        /\ resp.total = Cardinality({n \in DOMAIN contacts :
                                        Selected(contacts[n], resp.params)})

\* C4 witness: search and phone both supplied, a one-sided range with an end
\* that is no date, and a contact listed that only the phone alternative admits
C4_Witness ==
    /\ resp.op = "history" /\ resp.status = 200
    /\ Supplied(resp.params.search) /\ Supplied(resp.params.phone)
    /\ resp.params.call_start = NotADate /\ resp.params.call_end = <<>>
    /\ Supplied(resp.params.company)
    /\ \E n \in DOMAIN contacts :
          /\ Str(IdText(n)) \in Listed
          /\ ~RegexSearch(resp.params.search, contacts[n]["name"].v, TRUE)
          /\ ~RegexSearch(resp.params.search, contacts[n]["company_name"].v, TRUE)
          /\ ~RegexSearch(resp.params.search, contacts[n]["mobile"].v, FALSE)
          /\ ~RegexSearch(resp.params.search, contacts[n]["email"].v, TRUE)
    /\ \E n \in DOMAIN contacts : Str(IdText(n)) \notin Listed

----------------------------------------------------------------------------
(* The pagination arithmetic, over the valid pages, limits and totals *)

InitPage ==
    /\ contacts = <<>>
    /\ nextId = 1
    /\ now = 0
    /\ resp = NoResponse
    /\ exp = Idle
    /\ hist \in [pc : {"input"}, page : 1..MaxPage, limit : 1..LimitMax, total : 0..MaxTotal]
    /\ ledger = <<>>

NextPage == Paginate

SpecPage == InitPage /\ [][NextPage]_vars

\* C8: skip = (page-1)*limit, and pages is the ceiling of total/limit: the
\* least count of pages of limit records that holds total of them, 0 for none.
C8_Pagination ==
    resp.op = "paginate" =>
        /\ resp.skip = (resp.page - 1) * resp.limit
        /\ resp.pages >= 0
        /\ resp.pages * resp.limit >= resp.total
        /\ resp.pages > 0 => (resp.pages - 1) * resp.limit < resp.total
        /\ resp.total = 0 => resp.pages = 0

\* C8 witness: a total that is no multiple of the limit, beyond the first page
C8_Witness ==
    /\ resp.op = "paginate"
    /\ resp.page > 1 /\ resp.total > resp.limit /\ resp.total % resp.limit # 0

====
